---- MODULE Spec2Model ----
(***************************************************************************)
(* The ingestion engine of the photo backup server: the deduplication      *)
(* index (server/services/dedup.py), the storage service                   *)
(* (server/services/storage.py) and the upload handler                     *)
(* (server/routes/files.py).                                               *)
(*                                                                         *)
(* upload_file is a coroutine on one event loop: the code between two      *)
(* awaits runs without interruption, and the handlers of other requests    *)
(* run at every await (file.read, aiofiles.open, f.write, the close of     *)
(* the file).  One action of the model is one such segment, or the effect  *)
(* of the file operation the handler awaits.  DedupService.record is an    *)
(* INSERT followed by the commit of _get_connection; SQLite admits one     *)
(* writing connection at a time.                                           *)
(***************************************************************************)
EXTENDS Integers, Sequences, FiniteSets, TLC

(***************************************************************************)
(* Bounds of the model.                                                    *)
(***************************************************************************)
NumUploads == 2

\* The clock readings CURRENT_TIMESTAMP can give
MaxTime == 2

Uploads == 1..NumUploads

(***************************************************************************)
(* Text is a sequence of one-character strings.  None is the empty text    *)
(* for the optional form fields (the code tests them by truth value only), *)
(* and NoDate for the optional integer date_taken.                         *)
(***************************************************************************)
NoDate == -1000000

NoPath == << >>

WordChars == {"a", "b", "j", "p", "g", "u", "n", "k", "o", "w", "m", "e", "d",
              "0", "1", "2", "3", "4", "5", "6", "7", "8", "9", "_"}

Digits == <<"0", "1", "2", "3", "4", "5", "6", "7", "8", "9">>

RECURSIVE Str(_)
Str(n) == IF n < 10 THEN <<Digits[n + 1]>> ELSE Str(n \div 10) \o <<Digits[(n % 10) + 1]>>

(***************************************************************************)
(* hashlib.sha256: the digest is a running state updated byte by byte and  *)
(* printed as lowercase hexadecimal.  The state is one byte wide here.     *)
(***************************************************************************)
HashModulus == 256

HexChars == <<"0", "1", "2", "3", "4", "5", "6", "7", "8", "9", "a", "b", "c", "d", "e", "f">>

Sha256Init == 7

RECURSIVE Sha256Update(_, _)
Sha256Update(h, bytes) ==
    IF bytes = << >> THEN h
    ELSE Sha256Update((h * 31 + Head(bytes) + 1) % HashModulus, Tail(bytes))

HexDigest(h) == <<HexChars[(h \div 16) + 1], HexChars[(h % 16) + 1]>>

compute_hash_from_bytes(content) == HexDigest(Sha256Update(Sha256Init, content))

(***************************************************************************)
(* StorageService._sanitize_filename                                       *)
(***************************************************************************)
IsSafeChar(c) == c \in WordChars \cup {"-", ".", " "}

RECURSIVE ReSub(_)
ReSub(s) ==
    IF s = << >> THEN << >>
    ELSE <<(IF IsSafeChar(Head(s)) THEN Head(s) ELSE "_")>> \o ReSub(Tail(s))

RECURSIVE LStrip(_)
LStrip(s) == IF s # << >> /\ Head(s) \in {".", " "} THEN LStrip(Tail(s)) ELSE s

RECURSIVE RStrip(_)
RStrip(s) ==
    IF s # << >> /\ s[Len(s)] \in {".", " "} THEN RStrip(SubSeq(s, 1, Len(s) - 1)) ELSE s

Unnamed == <<"u", "n", "n", "a", "m", "e", "d">>

Unknown == <<"u", "n", "k", "n", "o", "w", "n">>

\* A sanitizer that does not trim the dots and spaces.
sanitize_filename_NoStrip(filename) ==
    LET safe_name == ReSub(filename)
    IN  IF safe_name = << >> THEN Unnamed ELSE safe_name

sanitize_filename(filename) ==
    LET safe_name == RStrip(LStrip(ReSub(filename)))
    IN  IF safe_name = << >> THEN Unnamed ELSE safe_name

(***************************************************************************)
(* StorageService._get_media_folder and SOURCE_FOLDERS                     *)
(***************************************************************************)
SOURCE_FOLDERS ==
    [s \in {"camera", "whatsapp", "wechat", "downloads"} |->
        CASE s = "camera"    -> ""
          [] s = "whatsapp"  -> "WhatsApp"
          [] s = "wechat"    -> "WeChat"
          [] s = "downloads" -> "Downloads"]

\* str.startswith
startswith(text, prefix) ==
    Len(text) >= Len(prefix) /\ SubSeq(text, 1, Len(prefix)) = prefix

ImagePrefix == <<"i", "m", "a", "g", "e", "/">>

VideoPrefix == <<"v", "i", "d", "e", "o", "/">>

ImageJpeg == ImagePrefix \o <<"j", "p", "e", "g">>

VideoMp4 == VideoPrefix \o <<"m", "p", "4">>

OctetStream == <<"a", "p", "p", "l", "i", "c", "a", "t", "i", "o", "n", "/",
                 "o", "c", "t", "e", "t", "-", "s", "t", "r", "e", "a", "m">>

\* A selection that looks at the MIME type before the source.
get_media_folder_MimeFirst(mime_type, source) ==
    IF startswith(mime_type, ImagePrefix) THEN "Photos"
    ELSE IF startswith(mime_type, VideoPrefix) THEN "Videos"
    ELSE IF source # "" /\ source \in DOMAIN SOURCE_FOLDERS /\ SOURCE_FOLDERS[source] # ""
    THEN SOURCE_FOLDERS[source]
    ELSE "Other"

get_media_folder(mime_type, source) ==
    IF source # "" /\ source \in DOMAIN SOURCE_FOLDERS /\ SOURCE_FOLDERS[source] # ""
    THEN SOURCE_FOLDERS[source]
    ELSE IF startswith(mime_type, ImagePrefix) THEN "Photos"
    ELSE IF startswith(mime_type, VideoPrefix) THEN "Videos"
    ELSE "Other"

(***************************************************************************)
(* datetime.fromtimestamp(date_taken / 1000): the year and the month of an *)
(* instant.  The model counts date_taken in whole days since 1970-01-01    *)
(* (one unit is 86 400 000 ms of the code's epoch milliseconds), in the    *)
(* proleptic Gregorian calendar with the server's time zone taken as UTC.  *)
(***************************************************************************)
DaysToEpochShift == 719468

DaysPerEra == 146097

FromTimestamp(days) ==
    LET z   == days + DaysToEpochShift
        era == z \div DaysPerEra
        doe == z - era * DaysPerEra
        yoe == (doe - (doe \div 1460) + (doe \div 36524) - (doe \div 146096)) \div 365
        doy == doe - (365 * yoe + (yoe \div 4) - (yoe \div 100))
        mp  == (5 * doy + 2) \div 153
        m   == IF mp < 10 THEN mp + 3 ELSE mp - 9
    IN  [year |-> yoe + era * 400 + (IF m <= 2 THEN 1 ELSE 0), month |-> m]

\* datetime.now() of get_storage_path: 2024-06-01
NowDays == 19875

\* upload_file: dt = None unless date_taken is truthy
ParseDateTaken(date_taken) ==
    IF date_taken # NoDate /\ date_taken # 0 THEN date_taken ELSE NoDate

(***************************************************************************)
(* pathlib: PurePath.stem and PurePath.suffix of a file name               *)
(***************************************************************************)
RECURSIVE RFind(_, _)
RFind(s, c) == IF s = << >> THEN 0 ELSE IF s[Len(s)] = c THEN Len(s)
               ELSE RFind(SubSeq(s, 1, Len(s) - 1), c)

HasSuffix(name) == 1 < RFind(name, ".") /\ RFind(name, ".") < Len(name)

Suffix(name) == IF HasSuffix(name) THEN SubSeq(name, RFind(name, "."), Len(name)) ELSE << >>

Stem(name) == IF HasSuffix(name) THEN SubSeq(name, 1, RFind(name, ".") - 1) ELSE name

(***************************************************************************)
(* StorageService.get_storage_path.  A relative path is                    *)
(* <<folder, year, month, name>>, year and month as numbers; files is the  *)
(* set of paths that exist.                                                *)
(***************************************************************************)
Parent(path) == <<path[1], path[2], path[3]>>

\* f"{date_taken.month:02d}"
Month02(month) == IF month < 10 THEN <<"0">> \o Str(month) ELSE Str(month)

\* The components pathlib makes of a name joined to a path: the name is cut
\* at every "/", and empty and "." components are dropped.
RECURSIVE SplitName(_, _)
SplitName(name, part) ==
    LET done == IF part = << >> \/ part = <<".">> THEN << >> ELSE <<part>>
    IN  IF name = << >> THEN done
        ELSE IF Head(name) = "/" THEN done \o SplitName(Tail(name), << >>)
        ELSE SplitName(Tail(name), Append(part, Head(name)))

\* Path(media_folder) / str(year) / month / name: a name that begins with
\* "/" is absolute and replaces what stands before it.
Parts(path) ==
    IF path[4] # << >> /\ Head(path[4]) = "/"
    THEN <<"/">> \o SplitName(path[4], << >>)
    ELSE <<path[1], Str(path[2]), Month02(path[3])>> \o SplitName(path[4], << >>)

WithName(path, name) == <<path[1], path[2], path[3], name>>

\* The path before collisions are looked at: folder / year / month / name
BasePath(filename, mime_type, date_taken, source) ==
    LET dt == FromTimestamp(IF date_taken = NoDate THEN NowDays ELSE date_taken)
    IN  <<get_media_folder(mime_type, source), dt.year, dt.month,
          sanitize_filename(filename)>>

\* A collision check that tries the first numbered name without looking
\* whether that one exists.
ResolveCollision_Once(files, path, stem, suffix, counter) ==
    IF path \in files
    THEN WithName(path, stem \o <<"_">> \o Str(counter) \o suffix)
    ELSE path

RECURSIVE ResolveCollision(_, _, _, _, _)
ResolveCollision(files, path, stem, suffix, counter) ==
    IF path \in files
    THEN ResolveCollision(files, WithName(path, stem \o <<"_">> \o Str(counter) \o suffix),
                          stem, suffix, counter + 1)
    ELSE path

\* An allocation that does not look at the files that exist.
get_storage_path_NoCollision(files, filename, mime_type, date_taken, source) ==
    BasePath(filename, mime_type, date_taken, source)

get_storage_path(files, filename, mime_type, date_taken, source) ==
    LET base == BasePath(filename, mime_type, date_taken, source)
    IN  IF base \in files
        THEN ResolveCollision(files, base, Stem(base[4]), Suffix(base[4]), 1)
        ELSE base

(***************************************************************************)
(* The upload requests the clients send.                                   *)
(***************************************************************************)
ContentA == <<1, 2>>

ContentB == <<3, 4>>

NameA == <<"a", ".", "j">>

NameA1 == <<"a", "_", "1", ".", "j">>

\* 2024-03-15
DateA == 19797

Request(filename, content, file_hash) ==
    [filename |-> filename, content |-> content, file_hash |-> file_hash,
     mime_type |-> ImageJpeg, content_type |-> << >>, source |-> "camera",
     date_taken |-> DateA]

UploadRequests ==
    << Request(NameA, ContentA, compute_hash_from_bytes(ContentA)),
       Request(NameA, ContentB, compute_hash_from_bytes(ContentB)),
       Request(NameA, ContentB, compute_hash_from_bytes(ContentA)),
       Request(NameA1, ContentA, compute_hash_from_bytes(ContentA)) >>

\* Requests that differ in what the path is made of: the file name, or the
\* date, the MIME type and the source.
MaxName == 3

NameChars == <<"a", ".", "/", " ", "_">>

\* The names of n characters, in a fixed order.
RECURSIVE NamesOfLen(_)
NamesOfLen(n) ==
    IF n = 0 THEN << << >> >>
    ELSE LET shorter == NamesOfLen(n - 1)
         IN  [i \in 1..(Len(shorter) * Len(NameChars)) |->
                 Append(shorter[((i - 1) \div Len(NameChars)) + 1],
                        NameChars[((i - 1) % Len(NameChars)) + 1])]

RECURSIVE NamesUpTo(_)
NamesUpTo(n) == IF n = 0 THEN NamesOfLen(0) ELSE NamesUpTo(n - 1) \o NamesOfLen(n)

FilenameSeq == NamesUpTo(MaxName)

Filenames == {FilenameSeq[i] : i \in 1..Len(FilenameSeq)}

\* 1970-01-01 (epoch millisecond 0), the days next to it, 2000-02-29,
\* 2023-12-31 and 2024-03-15; then no date
PathDates == <<0, 1, -1, 11016, 19722, DateA, NoDate>>

PathMimes == <<ImageJpeg, VideoMp4, << >> >>

PathSources == <<"", "whatsapp">>

PathRequest(filename, mime_type, date_taken, source) ==
    [filename |-> filename, content |-> ContentA,
     file_hash |-> compute_hash_from_bytes(ContentA),
     mime_type |-> mime_type, content_type |-> << >>, source |-> source,
     date_taken |-> date_taken]

PathRequests ==
    [i \in 1..Len(FilenameSeq) |-> PathRequest(FilenameSeq[i], ImageJpeg, DateA, "camera")]
    \o [i \in 1..(Len(PathDates) * Len(PathMimes) * Len(PathSources)) |->
          PathRequest(<<"a">>,
                      PathMimes[((i - 1) % Len(PathMimes)) + 1],
                      PathDates[((i - 1) \div (Len(PathMimes) * Len(PathSources))) + 1],
                      PathSources[(((i - 1) \div Len(PathMimes)) % Len(PathSources)) + 1])]

Requests == UploadRequests \o PathRequests

RequestIds == 1..Len(UploadRequests)

PathRequestIds == (Len(UploadRequests) + 1)..Len(Requests)

(***************************************************************************)
(* State                                                                   *)
(***************************************************************************)
VARIABLES
    pc,             \* where each upload_file call stands
    req,            \* the request it serves (0 before it arrives)
    relative_path,  \* the path get_storage_path gave it
    off,            \* bytes of content its file handle has written
    status,         \* the response it ended with
    created,        \* what dedup.record returned to it
    fs,             \* the files under the storage root: path -> bytes
    dirs,           \* the directories save_file made
    index,          \* the rows of backed_up_files, in id order
    writer,         \* the upload whose connection holds SQLite's write lock
    call            \* the last call of check, stats, delete_file,
                    \* compute_hash or _get_media_folder, and what it returned

vars == <<pc, req, relative_path, off, status, created, fs, dirs, index, writer, call>>

NoCall == [op |-> "none"]

\* backed_up_at: the readings of the clock; NoTime is SQL NULL
Times == 1..MaxTime

NoTime == 0

Files == DOMAIN fs

file_hash(u) == Requests[req[u]].file_hash

content(u) == Requests[req[u]].content

actual_mime(r) ==
    IF r.mime_type # << >> THEN r.mime_type
    ELSE IF r.content_type # << >> THEN r.content_type
    ELSE OctetStream

upload_filename(r) == IF r.filename # << >> THEN r.filename ELSE Unknown

Init ==
    /\ pc = [u \in Uploads |-> "idle"]
    /\ req = [u \in Uploads |-> 0]
    /\ relative_path = [u \in Uploads |-> NoPath]
    /\ off = [u \in Uploads |-> 0]
    /\ status = [u \in Uploads |-> "none"]
    /\ created = [u \in Uploads |-> "none"]
    /\ fs = << >>
    /\ dirs = {}
    /\ index = << >>
    /\ writer = 0
    /\ call = NoCall

(***************************************************************************)
(* DedupService                                                            *)
(***************************************************************************)
RowsWith(idx, h) == {i \in 1..Len(idx) : idx[i].sha256_hash = h}

\* A duplicate check that never finds the digest.
exists_Never(idx, h) == FALSE

exists(idx, h) == RowsWith(idx, h) # {}

\* A table without the UNIQUE constraint on sha256_hash.
InsertOutcome_NoUnique(idx, h) == "created"

\* record without the except clause: the IntegrityError leaves the call.
InsertOutcome_Raises(idx, h) == IF exists(idx, h) THEN "raised" ELSE "created"

\* The INSERT of record under the UNIQUE constraint on sha256_hash, and the
\* except clause around it.
InsertOutcome(idx, h) == IF exists(idx, h) THEN "duplicate" ELSE "created"

\* The row of the upload u; original_path and device_name are not sent.
Row(idx, u, t) ==
    [id |-> Len(idx) + 1,
     sha256_hash |-> file_hash(u),
     storage_path |-> relative_path[u],
     original_path |-> << >>,
     original_filename |-> Requests[req[u]].filename,
     file_size |-> Len(content(u)),
     mime_type |-> actual_mime(Requests[req[u]]),
     backed_up_at |-> t,
     source_device |-> << >>]

(***************************************************************************)
(* The file system calls of save_file                                      *)
(***************************************************************************)
\* open(dest_path, "wb"): create the file, or truncate the one that is there
OpenWb(files, path) ==
    [q \in DOMAIN files \cup {path} |-> IF q = path THEN << >> ELSE files[q]]

\* A write that loses the last byte of every chunk.
WriteAt_Short(old, offset, chunk) ==
    [i \in 1..(IF Len(old) > offset + Len(chunk) - 1 THEN Len(old)
               ELSE offset + Len(chunk) - 1) |->
        IF i > offset /\ i <= offset + Len(chunk) - 1 THEN chunk[i - offset]
        ELSE IF i <= Len(old) THEN old[i]
        ELSE 0]

\* write(chunk) through a handle whose position is offset: the bytes land at
\* offset + 1 .. offset + Len(chunk); a gap left by a truncation reads as zeros
WriteAt(old, offset, chunk) ==
    [i \in 1..(IF Len(old) > offset + Len(chunk) THEN Len(old) ELSE offset + Len(chunk)) |->
        IF i > offset /\ i <= offset + Len(chunk) THEN chunk[i - offset]
        ELSE IF i <= Len(old) THEN old[i]
        ELSE 0]

(***************************************************************************)
(* upload_file, from the request to the await of file.read(): the          *)
(* duplicate check, the date, the MIME type and the path allocation.       *)
(***************************************************************************)
UploadStart(u, r) ==
    /\ pc[u] = "idle"
    /\ req' = [req EXCEPT ![u] = r]
    /\ IF exists(index, Requests[r].file_hash)
       THEN /\ pc' = [pc EXCEPT ![u] = "done"]
            /\ status' = [status EXCEPT ![u] = "exists"]
            /\ UNCHANGED relative_path
       ELSE /\ pc' = [pc EXCEPT ![u] = "read"]
            /\ relative_path' = [relative_path EXCEPT ![u] =
                   get_storage_path(Files, upload_filename(Requests[r]),
                                    actual_mime(Requests[r]),
                                    ParseDateTaken(Requests[r].date_taken),
                                    Requests[r].source)]
            /\ UNCHANGED status
    /\ UNCHANGED <<off, created, fs, dirs, index, writer, call>>

(***************************************************************************)
(* upload_file, from the bytes read to the await of aiofiles.open: the     *)
(* hash verification, and the mkdir of save_file.                          *)
(***************************************************************************)
\* A handler that saves without comparing the digests.
UploadVerify_NoCheck(u) ==
    /\ pc[u] = "read"
    /\ pc' = [pc EXCEPT ![u] = "open"]
    /\ dirs' = dirs \cup {Parent(relative_path[u])}
    /\ UNCHANGED <<req, relative_path, off, status, created, fs, index, writer, call>>

\* A handler that makes the directory before it compares the digests.
UploadVerify_MkdirFirst(u) ==
    /\ pc[u] = "read"
    /\ dirs' = dirs \cup {Parent(relative_path[u])}
    /\ IF compute_hash_from_bytes(content(u)) # file_hash(u)
       THEN /\ pc' = [pc EXCEPT ![u] = "done"]
            /\ status' = [status EXCEPT ![u] = "hash_mismatch"]
       ELSE /\ pc' = [pc EXCEPT ![u] = "open"]
            /\ UNCHANGED status
    /\ UNCHANGED <<req, relative_path, off, created, fs, index, writer, call>>

UploadVerify(u) ==
    /\ pc[u] = "read"
    /\ IF compute_hash_from_bytes(content(u)) # file_hash(u)
       THEN /\ pc' = [pc EXCEPT ![u] = "done"]
            /\ status' = [status EXCEPT ![u] = "hash_mismatch"]
            /\ UNCHANGED dirs
       ELSE /\ pc' = [pc EXCEPT ![u] = "open"]
            /\ dirs' = dirs \cup {Parent(relative_path[u])}
            /\ UNCHANGED status
    /\ UNCHANGED <<req, relative_path, off, created, fs, index, writer, call>>

(***************************************************************************)
(* save_file: aiofiles.open(dest_path, "wb"), f.write(content) and the     *)
(* close at the end of the async with, each run on a worker thread while   *)
(* the handler is suspended.                                               *)
(***************************************************************************)
SaveOpen(u) ==
    /\ pc[u] = "open"
    /\ fs' = OpenWb(fs, relative_path[u])
    /\ off' = [off EXCEPT ![u] = 0]
    /\ pc' = [pc EXCEPT ![u] = IF content(u) = << >> THEN "close" ELSE "write"]
    /\ UNCHANGED <<req, relative_path, status, created, dirs, index, writer, call>>

\* One write of the file object: the next n bytes of content, n >= 1.
SaveWrite(u) ==
    /\ pc[u] = "write"
    /\ \E n \in 1..(Len(content(u)) - off[u]) :
        /\ fs' = [fs EXCEPT ![relative_path[u]] =
                     WriteAt(@, off[u], SubSeq(content(u), off[u] + 1, off[u] + n))]
        /\ off' = [off EXCEPT ![u] = @ + n]
        /\ pc' = [pc EXCEPT ![u] = IF off[u] + n = Len(content(u)) THEN "close" ELSE "write"]
    /\ UNCHANGED <<req, relative_path, status, created, dirs, index, writer, call>>

SaveClose(u) ==
    /\ pc[u] = "close"
    /\ pc' = [pc EXCEPT ![u] = "record"]
    /\ UNCHANGED <<req, relative_path, off, status, created, fs, dirs, index, writer, call>>

\* The open, the write or the close raises OSError (disk full, permission
\* denied, path too long): the exception leaves upload_file.
\* A handler that records in a finally clause, whatever the write did.
SaveFail_RecordsAnyway(u) ==
    /\ pc[u] \in {"open", "write", "close"}
    /\ writer = 0
    /\ pc' = [pc EXCEPT ![u] = "done"]
    /\ status' = [status EXCEPT ![u] = "write_failed"]
    /\ \E t \in Times :
          index' = IF exists(index, file_hash(u)) THEN index ELSE Append(index, Row(index, u, t))
    /\ UNCHANGED <<req, relative_path, off, created, fs, dirs, writer, call>>

SaveFail(u) ==
    /\ pc[u] \in {"open", "write", "close"}
    /\ pc' = [pc EXCEPT ![u] = "done"]
    /\ status' = [status EXCEPT ![u] = "write_failed"]
    /\ UNCHANGED <<req, relative_path, off, created, fs, dirs, index, writer, call>>

\* The request is cancelled while the handler is suspended at an await.
Abort(u) ==
    /\ pc[u] \in {"read", "open", "write", "close"}
    /\ pc' = [pc EXCEPT ![u] = "done"]
    /\ status' = [status EXCEPT ![u] = "aborted"]
    /\ UNCHANGED <<req, relative_path, off, created, fs, dirs, index, writer, call>>

(***************************************************************************)
(* dedup.record and the return of upload_file.  RecordInsert is the INSERT *)
(* (SQLite gives the write lock to one connection at a time); on           *)
(* IntegrityError record returns False, and upload_file, which does not    *)
(* look at the value, answers "success".  RecordCommit is conn.commit() of *)
(* _get_connection, the return True and the same answer; backed_up_at is   *)
(* the reading of the clock, whatever it is.  An exception                 *)
(* other than IntegrityError is not caught by record and leaves the        *)
(* handler.                                                                *)
(***************************************************************************)
RecordInsert(u) ==
    /\ pc[u] = "record"
    /\ writer = 0
    /\ CASE InsertOutcome(index, file_hash(u)) = "created" ->
              /\ writer' = u
              /\ pc' = [pc EXCEPT ![u] = "commit"]
              /\ UNCHANGED <<created, status>>
         [] InsertOutcome(index, file_hash(u)) = "duplicate" ->
              /\ created' = [created EXCEPT ![u] = "false"]
              /\ pc' = [pc EXCEPT ![u] = "done"]
              /\ status' = [status EXCEPT ![u] = "success"]
              /\ UNCHANGED writer
         [] OTHER ->
              /\ created' = [created EXCEPT ![u] = "raised"]
              /\ pc' = [pc EXCEPT ![u] = "done"]
              /\ status' = [status EXCEPT ![u] = "index_failed"]
              /\ UNCHANGED writer
    /\ UNCHANGED <<req, relative_path, off, fs, dirs, index, call>>

\* A commit that leaves the write lock of the database held.
RecordCommit_KeepsLock(u) ==
    /\ pc[u] = "commit"
    /\ writer = u
    /\ \E t \in Times : index' = Append(index, Row(index, u, t))
    /\ created' = [created EXCEPT ![u] = "true"]
    /\ pc' = [pc EXCEPT ![u] = "done"]
    /\ status' = [status EXCEPT ![u] = "success"]
    /\ UNCHANGED <<req, relative_path, off, fs, dirs, writer, call>>

RecordCommit(u) ==
    /\ pc[u] = "commit"
    /\ writer = u
    /\ \E t \in Times : index' = Append(index, Row(index, u, t))
    /\ writer' = 0
    /\ created' = [created EXCEPT ![u] = "true"]
    /\ pc' = [pc EXCEPT ![u] = "done"]
    /\ status' = [status EXCEPT ![u] = "success"]
    /\ UNCHANGED <<req, relative_path, off, fs, dirs, call>>

Next ==
    \E u \in Uploads :
        \/ \E r \in RequestIds : UploadStart(u, r)
        \/ UploadVerify(u)
        \/ SaveOpen(u)
        \/ SaveWrite(u)
        \/ SaveClose(u)
        \/ SaveFail(u)
        \/ Abort(u)
        \/ RecordInsert(u)
        \/ RecordCommit(u)

Spec == Init /\ [][Next]_vars

(***************************************************************************)
(* The other calls of the services.  Each is a step of its own that leaves *)
(* in call what it was given and what it returned.                         *)
(***************************************************************************)
Range(seq) == {seq[i] : i \in 1..Len(seq)}

\* A query that leaves out the WHERE clause.
get_existing_hashes_NoFilter(idx, hashes) ==
    {idx[i].sha256_hash : i \in 1..Len(idx)}

\* DedupService.get_existing_hashes: the empty list is answered without a
\* query, any other by SELECT ... WHERE sha256_hash IN (...).
get_existing_hashes(idx, hashes) ==
    IF hashes = << >> THEN {}
    ELSE {idx[i].sha256_hash : i \in {j \in 1..Len(idx) : idx[j].sha256_hash \in Range(hashes)}}

\* check_files: existing is the set as a list (in no particular order, each
\* digest once), missing the comprehension over request.hashes.
check_files(idx, hashes) ==
    LET existing_hashes == get_existing_hashes(idx, hashes)
    IN  [existing |-> existing_hashes,
         missing  |-> SelectSeq(hashes, LAMBDA h : h \notin existing_hashes)]

\* The aggregates of the SELECT of get_stats; SUM, MIN and MAX over no row
\* are NULL.
\* A SUM that counts the rows instead of adding their sizes.
SqlSum_Count(idx) == Len(idx)

RECURSIVE SqlSum(_)
SqlSum(idx) == IF idx = << >> THEN 0 ELSE Head(idx).file_size + SqlSum(Tail(idx))

SqlMin(idx) ==
    IF idx = << >> THEN NoTime
    ELSE CHOOSE t \in {idx[i].backed_up_at : i \in 1..Len(idx)} :
            \A i \in 1..Len(idx) : t <= idx[i].backed_up_at

SqlMax(idx) ==
    IF idx = << >> THEN NoTime
    ELSE CHOOSE t \in {idx[i].backed_up_at : i \in 1..Len(idx)} :
            \A i \in 1..Len(idx) : t >= idx[i].backed_up_at

\* DedupService.get_stats and the fields the route get_stats takes from it
\* (total_size_human and storage_path are left out).
get_stats(idx) ==
    [total_files      |-> Len(idx),
     total_size_bytes |-> SqlSum(idx),
     first_backup     |-> SqlMin(idx),
     last_backup      |-> SqlMax(idx)]

\* An INSERT OR REPLACE: the row of a digest already recorded is overwritten.
record_Replace(idx, row) ==
    IF RowsWith(idx, row.sha256_hash) # {}
    THEN [index  |-> [i \in 1..Len(idx) |->
                        IF idx[i].sha256_hash = row.sha256_hash THEN row ELSE idx[i]],
          result |-> TRUE]
    ELSE [index |-> Append(idx, row), result |-> TRUE]

\* DedupService.record as one call: the INSERT and the commit.
record(idx, row) ==
    IF InsertOutcome(idx, row.sha256_hash) = "created"
    THEN [index |-> Append(idx, row), result |-> TRUE]
    ELSE [index |-> idx, result |-> FALSE]

\* A delete that reports a removal whether or not the file was there.
delete_file_AlwaysTrue(files, path) ==
    [fs |-> [q \in DOMAIN files \ {path} |-> files[q]], result |-> TRUE]

\* StorageService.delete_file
delete_file(files, path) ==
    IF path \in DOMAIN files
    THEN [fs |-> [q \in DOMAIN files \ {path} |-> files[q]], result |-> TRUE]
    ELSE [fs |-> files, result |-> FALSE]

\* StorageService.compute_hash: the file is read chunk_size bytes at a time
\* until a read returns nothing.
\* A read loop that starts a new hash object for every chunk.
RECURSIVE HashChunks_Restart(_, _, _)
HashChunks_Restart(h, bytes, chunk_size) ==
    LET chunk == SubSeq(bytes, 1, IF Len(bytes) < chunk_size THEN Len(bytes) ELSE chunk_size)
    IN  IF chunk = << >> THEN h
        ELSE HashChunks_Restart(Sha256Update(Sha256Init, chunk),
                                SubSeq(bytes, Len(chunk) + 1, Len(bytes)), chunk_size)

RECURSIVE HashChunks(_, _, _)
HashChunks(h, bytes, chunk_size) ==
    LET chunk == SubSeq(bytes, 1, IF Len(bytes) < chunk_size THEN Len(bytes) ELSE chunk_size)
    IN  IF chunk = << >> THEN h
        ELSE HashChunks(Sha256Update(h, chunk),
                        SubSeq(bytes, Len(chunk) + 1, Len(bytes)), chunk_size)

compute_hash(bytes, chunk_size) == HexDigest(HashChunks(Sha256Init, bytes, chunk_size))

(***************************************************************************)
(* The inputs of these calls.                                              *)
(***************************************************************************)
MaxList == 3

MaxLen == 3

MaxChunk == 3

DigestA == compute_hash_from_bytes(ContentA)

DigestB == compute_hash_from_bytes(ContentB)

DigestC == <<"0", "0">>

Digests == {DigestA, DigestB, DigestC}

RECURSIVE SeqsUpTo(_, _)
SeqsUpTo(S, n) ==
    IF n = 0 THEN {<< >>}
    ELSE SeqsUpTo(S, n - 1) \cup {Append(q, x) : q \in SeqsUpTo(S, n - 1), x \in S}

CheckLists == SeqsUpTo({DigestA, DigestC}, MaxList)

ByteSeqs == SeqsUpTo(1..3, MaxLen)

ChunkSizes == 1..MaxChunk

RecordSizes == {0, 3}

Sources == {"", "camera", "whatsapp", "wechat", "downloads", "WhatsApp", "telegram"}

MimeTypes ==
    {ImageJpeg, ImagePrefix \o <<"p", "n", "g">>, ImagePrefix, VideoMp4, VideoPrefix,
     OctetStream, << >>, <<"i", "m", "a", "g", "e">>, <<"v", "i", "d", "e", "o">>,
     <<"I", "M", "A", "G", "E", "/", "j", "p", "g">>, <<"x">> \o ImageJpeg,
     <<"a", "/">> \o VideoMp4, <<"i", "m", "a", "g", "e", "s", "/", "x">>}

AllQuiet == \A v \in Uploads : pc[v] \in {"idle", "done"}

Quiet(u) == \A v \in Uploads \ {u} : pc[v] \in {"idle", "done"}

CheckFiles(hashes) ==
    /\ call' = [op |-> "check", hashes |-> hashes, result |-> check_files(index, hashes)]
    /\ UNCHANGED <<pc, req, relative_path, off, status, created, fs, dirs, index, writer>>

GetStats ==
    /\ call' = [op |-> "stats", result |-> get_stats(index)]
    /\ UNCHANGED <<pc, req, relative_path, off, status, created, fs, dirs, index, writer>>

RecordCall(h, path, size) ==
    /\ writer = 0
    /\ \E t \in Times :
        LET row == [id |-> Len(index) + 1, sha256_hash |-> h, storage_path |-> path,
                    original_path |-> << >>, original_filename |-> << >>,
                    file_size |-> size, mime_type |-> << >>, backed_up_at |-> t,
                    source_device |-> << >>]
        IN  /\ index' = record(index, row).index
            /\ call' = [op |-> "record", hash |-> h, result |-> record(index, row).result]
    /\ UNCHANGED <<pc, req, relative_path, off, status, created, fs, dirs, writer>>

DeleteFile(path) ==
    /\ fs' = delete_file(fs, path).fs
    /\ call' = [op |-> "delete", path |-> path, result |-> delete_file(fs, path).result]
    /\ UNCHANGED <<pc, req, relative_path, off, status, created, dirs, index, writer>>

ComputeHash(path, chunk_size) ==
    /\ path \in Files
    /\ call' = [op |-> "compute_hash", path |-> path, chunk_size |-> chunk_size,
                result |-> compute_hash(fs[path], chunk_size)]
    /\ UNCHANGED <<pc, req, relative_path, off, status, created, fs, dirs, index, writer>>

SanitizeFilename(filename) ==
    /\ call' = [op |-> "sanitize", filename |-> filename,
                result |-> sanitize_filename(filename)]
    /\ UNCHANGED <<pc, req, relative_path, off, status, created, fs, dirs, index, writer>>

GetMediaFolder(mime_type, source) ==
    /\ call' = [op |-> "folder", mime_type |-> mime_type, source |-> source,
                result |-> get_media_folder(mime_type, source)]
    /\ UNCHANGED <<pc, req, relative_path, off, status, created, fs, dirs, index, writer>>

(***************************************************************************)
(* Path allocation on a storage root that already holds files (left by     *)
(* earlier runs of the server): any subset of the names a.j, a_1.j, a_2.j, *)
(* a_3.j in the folder of the requests.                                    *)
(***************************************************************************)
NameA2 == <<"a", "_", "2", ".", "j">>

NameA3 == <<"a", "_", "3", ".", "j">>

AllocPaths ==
    {WithName(BasePath(NameA, ImageJpeg, DateA, "camera"), n) :
        n \in {NameA, NameA1, NameA2, NameA3}}

InitAlloc ==
    /\ pc = [u \in Uploads |-> "idle"]
    /\ req = [u \in Uploads |-> 0]
    /\ relative_path = [u \in Uploads |-> NoPath]
    /\ off = [u \in Uploads |-> 0]
    /\ status = [u \in Uploads |-> "none"]
    /\ created = [u \in Uploads |-> "none"]
    /\ \E S \in SUBSET AllocPaths :
          /\ fs = [p \in S |-> ContentA]
          /\ dirs = {Parent(p) : p \in S}
    /\ index = << >>
    /\ writer = 0
    /\ call = NoCall

NextAlloc == \E u \in Uploads : \E r \in RequestIds : UploadStart(u, r)

SpecAlloc == InitAlloc /\ [][NextAlloc]_vars

(***************************************************************************)
(* The service driven by one client: calls come one after another, an      *)
(* upload runs to its end before the next call starts.                     *)
(***************************************************************************)
HashPath == BasePath(NameA, ImageJpeg, DateA, "camera")

OpsList == <<DigestA, DigestC, DigestA>>

DeletePaths == {WithName(HashPath, NameA), WithName(HashPath, NameA1)}

UploadStep(u) ==
    \/ \E r \in RequestIds : UploadStart(u, r)
    \/ UploadVerify(u)
    \/ SaveOpen(u)
    \/ SaveWrite(u)
    \/ SaveClose(u)
    \/ RecordInsert(u)
    \/ RecordCommit(u)

NextSeq ==
    \/ \E u \in Uploads : Quiet(u) /\ UploadStep(u)
    \/ AllQuiet /\ GetStats

SpecSeq == Init /\ [][NextSeq]_vars

(***************************************************************************)
(* Concurrent uploads without I/O failure or cancellation, under a fair    *)
(* scheduler: the event loop resumes every coroutine that is ready, a      *)
(* worker thread finishes the file call it was given, and the write lock   *)
(* of the database is granted once it is free.                             *)
(***************************************************************************)
Resume(u) ==
    \/ UploadVerify(u)
    \/ SaveOpen(u)
    \/ SaveWrite(u)
    \/ SaveClose(u)
    \/ RecordInsert(u)
    \/ RecordCommit(u)

NextLive ==
    \/ \E u \in Uploads : \E r \in RequestIds : UploadStart(u, r)
    \/ \E u \in Uploads : Resume(u)

SpecLive == Init /\ [][NextLive]_vars /\ \A u \in Uploads : WF_vars(Resume(u))

\* The same with direct record calls and checks between the uploads.
NextOps ==
    \/ \E u \in Uploads : Quiet(u) /\ UploadStep(u)
    \/ AllQuiet /\ CheckFiles(OpsList)
    \/ AllQuiet /\ GetStats
    \/ AllQuiet /\ \E h \in {DigestA, DigestC} : RecordCall(h, HashPath, Len(ContentA))

SpecOps == Init /\ [][NextOps]_vars

\* Uploads one after another, and files deleted between them.
NextDelete ==
    \/ \E u \in Uploads : Quiet(u) /\ UploadStep(u)
    \/ AllQuiet /\ \E path \in DeletePaths : DeleteFile(path)

SpecDelete == Init /\ [][NextDelete]_vars

\* The index service alone: record calls, checks and stats.
NextQuery ==
    \/ \E h \in Digests, size \in RecordSizes : RecordCall(h, HashPath, size)
    \/ \E hashes \in CheckLists : CheckFiles(hashes)
    \/ GetStats

SpecQuery == Init /\ [][NextQuery]_vars

(***************************************************************************)
(* The path of one upload, for requests that differ in what the path is    *)
(* made of, on a storage root that may hold files of the name "a".         *)
(***************************************************************************)
PathFiles ==
    {WithName(HashPath, <<"a">>), WithName(HashPath, <<"a", "_", "1">>)}

InitPath ==
    /\ pc = [u \in Uploads |-> "idle"]
    /\ req = [u \in Uploads |-> 0]
    /\ relative_path = [u \in Uploads |-> NoPath]
    /\ off = [u \in Uploads |-> 0]
    /\ status = [u \in Uploads |-> "none"]
    /\ created = [u \in Uploads |-> "none"]
    /\ \E S \in SUBSET PathFiles :
          /\ fs = [p \in S |-> ContentB]
          /\ dirs = {Parent(p) : p \in S}
    /\ index = << >>
    /\ writer = 0
    /\ call = NoCall

NextPath == \E u \in Uploads : \E r \in PathRequestIds : Quiet(u) /\ UploadStart(u, r)

SpecPath == InitPath /\ [][NextPath]_vars

\* The sanitizer applied to every file name.
NextSanitize == \E filename \in Filenames : SanitizeFilename(filename)

SpecSanitize == Init /\ [][NextSanitize]_vars

(***************************************************************************)
(* The pure functions of StorageService, applied to inputs drawn from      *)
(* bounded sets: the file to hash is on disk from the start.               *)
(***************************************************************************)
InitPure ==
    /\ pc = [u \in Uploads |-> "idle"]
    /\ req = [u \in Uploads |-> 0]
    /\ relative_path = [u \in Uploads |-> NoPath]
    /\ off = [u \in Uploads |-> 0]
    /\ status = [u \in Uploads |-> "none"]
    /\ created = [u \in Uploads |-> "none"]
    /\ \E bytes \in ByteSeqs : fs = [p \in {HashPath} |-> bytes]
    /\ dirs = {Parent(HashPath)}
    /\ index = << >>
    /\ writer = 0
    /\ call = NoCall

NextPure ==
    \/ \E chunk_size \in ChunkSizes : ComputeHash(HashPath, chunk_size)
    \/ \E mime_type \in MimeTypes, source \in Sources : GetMediaFolder(mime_type, source)

SpecPure == InitPure /\ [][NextPure]_vars

TypeOK ==
    /\ pc \in [Uploads -> {"idle", "read", "open", "write", "close", "record", "commit", "done"}]
    /\ req \in [Uploads -> 0..Len(Requests)]
    /\ writer \in {0} \cup Uploads

(***************************************************************************)
(* Properties                                                              *)
(***************************************************************************)
Mismatch(r) == compute_hash_from_bytes(Requests[r].content) # Requests[r].file_hash

Returned(u) == created[u] # "none"

\* C1: the index holds at most one row per digest, and exactly one row for
\* every digest for which a record call has returned.
C1_OneRowPerDigest ==
    /\ \A i, j \in 1..Len(index) :
          index[i].sha256_hash = index[j].sha256_hash => i = j
    /\ \A u \in Uploads :
          Returned(u) => Cardinality(RowsWith(index, file_hash(u))) = 1

\* Two record calls for one digest, made for two different paths, have both
\* returned and the index holds one row.
C1_Witness ==
    \E u, v \in Uploads :
        /\ u # v /\ Returned(u) /\ Returned(v)
        /\ file_hash(u) = file_hash(v)
        /\ relative_path[u] # relative_path[v]
        /\ Len(index) = 1

\* C2: of the record calls for one digest exactly one returns True, every
\* other returns False, and none ends in an exception.
C2_OneCreatedRestDuplicate ==
    \A u \in Uploads :
        Returned(u) =>
            /\ created[u] \in {"true", "false"}
            /\ Cardinality({v \in Uploads : /\ created[v] = "true"
                                            /\ file_hash(v) = file_hash(u)}) = 1

\* Every upload has come to its record call with the same digest (each passed
\* the duplicate check before any commit) and every call has returned.
C2_Witness ==
    /\ \A u \in Uploads : Returned(u) /\ file_hash(u) = file_hash(1)
    /\ \E u \in Uploads : created[u] = "false"

\* C3: at most one upload of a digest ends Accepted, and an upload whose
\* record call reported a duplicate ends AlreadyExists.
C3_Original ==
    /\ \A u, v \in Uploads :
          (status[u] = "success" /\ status[v] = "success" /\ file_hash(u) = file_hash(v))
              => u = v
    /\ \A u \in Uploads : created[u] = "false" => status[u] = "exists"

\* C4: an upload whose claimed digest is recorded when it arrives ends
\* AlreadyExists in that step, which changes no file, directory or row.
C4_ExistingDigestUntouched ==
    [][\A u \in Uploads :
          (pc[u] = "idle" /\ pc'[u] # "idle" /\ RowsWith(index, Requests[req'[u]].file_hash) # {})
              => /\ pc'[u] = "done"
                 /\ status'[u] = "exists"
                 /\ relative_path'[u] = NoPath
                 /\ fs' = fs /\ dirs' = dirs /\ index' = index]_vars

C4_Witness ==
    \E u \in Uploads :
        /\ status[u] = "exists"
        /\ Cardinality(RowsWith(index, file_hash(u))) = 1
        /\ \E i \in RowsWith(index, file_hash(u)) :
              /\ index[i].storage_path \in Files
              /\ compute_hash_from_bytes(fs[index[i].storage_path]) = file_hash(u)

\* C5 as stated: an upload whose claimed digest differs from the digest of its
\* bytes never ends Accepted or AlreadyExists.
C5_Original ==
    \A u \in Uploads :
        (req[u] # 0 /\ Mismatch(req[u])) => status[u] \notin {"success", "exists"}

\* C5 as amended: an upload whose claimed digest differs from the digest of its
\* bytes and is not recorded when the upload checks it goes on to read the
\* bytes and then ends HashMismatch, unless it is cancelled while reading.
C5_MismatchRejected ==
    [][\A u \in Uploads :
          (req'[u] # 0 /\ Mismatch(req'[u])) =>
              /\ (pc[u] = "idle" /\ pc'[u] # "idle" /\ ~exists(index, Requests[req'[u]].file_hash))
                     => pc'[u] = "read"
              /\ (pc[u] = "read" /\ pc'[u] # "read")
                     => pc'[u] = "done" /\ status'[u] \in {"hash_mismatch", "aborted"}
              /\ status'[u] # "success"]_vars

C5_Witness ==
    \E u \in Uploads :
        /\ status[u] = "hash_mismatch"
        /\ ~exists(index, file_hash(u))

\* C6: the steps of an upload that ends HashMismatch (the path allocation and
\* the verification) change no file, no directory and no row.
C6_MismatchNoSideEffect ==
    [][\A u \in Uploads :
          \/ pc[u] = "idle" /\ pc'[u] = "read"
          \/ status[u] # "hash_mismatch" /\ status'[u] = "hash_mismatch"
          => fs' = fs /\ dirs' = dirs /\ index' = index]_vars

\* An upload ended HashMismatch with a path allocated and nothing under it,
\* nor the directory of the path.
C6_Witness ==
    \E u \in Uploads :
        /\ status[u] = "hash_mismatch"
        /\ relative_path[u] # NoPath
        /\ relative_path[u] \notin Files
        /\ Parent(relative_path[u]) \notin dirs

\* C7: an upload that is cancelled or whose write fails has made no record
\* call and holds no uncommitted row, the step in which it fails leaves the
\* index alone, and the index changes only in the commit of an upload whose
\* write was complete.
C7_FailedUploadNoRecord ==
    [][/\ \A u \in Uploads :
             status'[u] \in {"write_failed", "aborted"} =>
                 /\ created'[u] = "none"
                 /\ writer' # u
                 /\ status[u] = "none" => index' = index
       /\ index' # index =>
             \E v \in Uploads :
                 /\ pc[v] = "commit" /\ status'[v] = "success"
                 /\ off[v] = Len(content(v))
                 /\ \E t \in Times : index' = Append(index, Row(index, v, t))]_vars

\* A write failed part-way: the file holds less than the content and the
\* index has no row for the digest.
C7_Witness ==
    \E u \in Uploads :
        /\ status[u] = "write_failed"
        /\ relative_path[u] \in Files
        /\ Len(fs[relative_path[u]]) < Len(content(u))
        /\ ~exists(index, file_hash(u))

\* C8: every file under the storage root holds the complete bytes of some
\* upload.
C8_Original ==
    \A p \in Files : \E r \in RequestIds : fs[p] = Requests[r].content

\* The name with _k before the extension
Candidate(base, k) ==
    WithName(base, Stem(base[4]) \o <<"_">> \o Str(k) \o Suffix(base[4]))

RequestBase(r) ==
    BasePath(upload_filename(Requests[r]), actual_mime(Requests[r]),
             ParseDateTaken(Requests[r].date_taken), Requests[r].source)

\* C9: get_storage_path returns the base path when no file is there, and
\* otherwise the name with _k before the extension for the least k >= 1 that
\* names no file; the path returned names no file, and the allocation
\* leaves the files and directories as they were.
C9_LeastFreeName ==
    [][\A u \in Uploads :
          (pc[u] = "idle" /\ pc'[u] = "read") =>
              LET base == RequestBase(req'[u])
                  p    == relative_path'[u]
              IN  /\ fs' = fs /\ dirs' = dirs
                  /\ p \notin Files
                  /\ IF base \notin Files
                     THEN p = base
                     ELSE \E k \in 1..(Cardinality(Files) + 1) :
                             /\ p = Candidate(base, k)
                             /\ \A j \in 1..(k - 1) : Candidate(base, j) \in Files]_vars

\* a.j and a_1.j exist and an upload named a.j was given a_2.j, while a_3.j
\* exists as well.
C9_Witness ==
    \E u \in Uploads :
        /\ pc[u] = "read"
        /\ RequestBase(req[u]) \in Files
        /\ Candidate(RequestBase(req[u]), 1) \in Files
        /\ Candidate(RequestBase(req[u]), 3) \in Files
        /\ relative_path[u] = Candidate(RequestBase(req[u]), 2)
        /\ relative_path[u][4] = NameA2

\* C10 as stated: no two rows of the index have the same storage_path.
C10_Original ==
    \A i, j \in 1..Len(index) :
        index[i].storage_path = index[j].storage_path => i = j

FileCreated(u) ==
    \/ pc[u] \in {"write", "close", "record", "commit"}
    \/ pc[u] = "done" /\ status[u] = "success"

\* C10 as amended: the path an upload is allocated differs from the
\* storage_path of every row the index holds and from the path of every
\* upload that has created its file.
C10_AllocationAvoidsStoredPaths ==
    [][\A v \in Uploads :
          (pc[v] = "idle" /\ pc'[v] = "read") =>
              /\ \A i \in 1..Len(index) : index[i].storage_path # relative_path'[v]
              /\ \A u \in Uploads \ {v} :
                    FileCreated(u) => relative_path[u] # relative_path'[v]]_vars

\* Two uploads of the same file name are recorded under different paths.
C10_Witness ==
    \E i, j \in 1..Len(index) :
        /\ index[i].original_filename = index[j].original_filename
        /\ index[i].storage_path # index[j].storage_path

Recorded == {index[i].sha256_hash : i \in 1..Len(index)}

RECURSIVE Without(_, _)
Without(list, S) ==
    IF list = << >> THEN << >>
    ELSE (IF Head(list) \in S THEN << >> ELSE <<Head(list)>>) \o Without(Tail(list), S)

\* C11: a check of the list L answers existing = the digests of L that the
\* index records and missing = L without the recorded digests, in the order
\* of L; the two are disjoint and together cover L, and the empty list is
\* answered by two empty results.
C11_CheckAnswer ==
    call.op = "check" =>
        LET L == call.hashes
            existing == call.result.existing
            missing == call.result.missing
        IN  /\ existing = Range(L) \cap Recorded
            /\ missing = Without(L, Recorded)
            /\ existing \cap Range(missing) = {}
            /\ existing \cup Range(missing) = Range(L)
            /\ L = << >> => existing = {} /\ missing = << >>

\* A check of a list that names an unrecorded digest twice around a recorded
\* one, on an index that also records a digest the list does not name.
C11_Witness ==
    /\ call.op = "check"
    /\ Len(call.hashes) = 3
    /\ call.hashes[1] = call.hashes[3]
    /\ call.result.existing = {call.hashes[2]}
    /\ call.result.missing = <<call.hashes[1], call.hashes[3]>>
    /\ Recorded \ Range(call.hashes) # {}

\* The finished uploads of the content c that named its digest.
DoneWith(c) ==
    {u \in Uploads : pc[u] = "done" /\ ~Mismatch(req[u]) /\ content(u) = c}

C12_State ==
    /\ \A c \in {ContentA, ContentB} :
          DoneWith(c) # {} =>
            /\ Cardinality({u \in DoneWith(c) : status[u] = "success"}) = 1
            /\ \A u \in DoneWith(c) : status[u] \in {"success", "exists"}
            /\ Cardinality(RowsWith(index, compute_hash_from_bytes(c))) = 1
            /\ Cardinality({p \in Files : fs[p] = c}) = 1
    /\ \A c \in {ContentA, ContentB} :
          (DoneWith(c) # {} /\ \A u \in Uploads : pc[u] = "idle" \/ u \in DoneWith(c)) =>
            /\ Len(index) = 1
            /\ Cardinality(Files) = 1
            /\ get_stats(index).total_files = 1

C12_Step ==
    \A u \in Uploads :
        (/\ pc[u] = "idle" /\ pc'[u] # "idle"
         /\ ~Mismatch(req'[u])
         /\ DoneWith(Requests[req'[u]].content) # {})
        => /\ pc'[u] = "done"
           /\ status'[u] = "exists"
           /\ index' = index
           /\ fs' = fs
           /\ get_stats(index') = get_stats(index)

\* C12: when uploads come one after another, the first upload of a content
\* with its correct digest ends "success" and every later one ends "exists"
\* at once, leaving the index, the stored files and the stats as they were:
\* one row, one file, total_files = 1.
C12_SequentialIdempotent == [][C12_Step /\ C12_State']_vars

\* The same content was uploaded twice, under two names, and stats asked
\* afterwards.
C12_Witness ==
    /\ \E u, v \in Uploads :
          /\ u # v /\ {u, v} \subseteq DoneWith(ContentA)
          /\ req[u] # req[v]
          /\ status[u] = "success" /\ status[v] = "exists"
    /\ Len(index) = 1
    /\ Cardinality(Files) = 1
    /\ call.op = "stats" /\ call.result.total_files = 1

\* C13: no step of a check, an upload, a record call or a stats call removes
\* or changes a row of the index: every row present before the step is
\* present after it at the same place, with every field as it was.
C13_RecordsImmutable ==
    [][/\ Len(index') >= Len(index)
       /\ \A i \in 1..Len(index) : index'[i] = index[i]]_vars

\* The index holds two rows, the first written by an upload; a later upload
\* of its digest ended "exists" and a record call for its digest was refused.
C13_Witness ==
    /\ Len(index) >= 2
    /\ \E u, v \in Uploads :
          /\ status[u] = "success" /\ created[u] = "true"
          /\ index[1].sha256_hash = file_hash(u)
          /\ index[1].storage_path = relative_path[u]
          /\ status[v] = "exists" /\ file_hash(v) = file_hash(u)
    /\ call.op = "record" /\ call.hash = index[1].sha256_hash /\ call.result = FALSE

\* C14: in every state stats reports as total_files the number of rows of
\* the index and as total_size_bytes the sum of their file_size, with the
\* earliest and the latest backed_up_at; on an empty index it reports 0, 0
\* and no timestamps.  The answer of a stats call is that report.
C14_StatsMatchIndex ==
    LET r == get_stats(index)
        rows == 1..Len(index)
    IN  /\ r.total_files = Cardinality(rows)
        /\ r.total_size_bytes =
              Cardinality({<<i, k>> \in rows \X (1..3) : k <= index[i].file_size})
        /\ index = << >> =>
              /\ r.total_files = 0 /\ r.total_size_bytes = 0
              /\ r.first_backup = NoTime /\ r.last_backup = NoTime
        /\ index # << >> =>
              /\ \E i \in rows : r.first_backup = index[i].backed_up_at
              /\ \E i \in rows : r.last_backup = index[i].backed_up_at
              /\ \A i \in rows : /\ r.first_backup <= index[i].backed_up_at
                                  /\ index[i].backed_up_at <= r.last_backup
        /\ call.op = "stats" => call.result = r

\* Stats asked of an index of three rows of different sizes, recorded at
\* different times and not in the order of their times.
C14_Witness ==
    /\ call.op = "stats"
    /\ call.result.total_files = 3
    /\ call.result.total_size_bytes = 3
    /\ call.result.first_backup < call.result.last_backup
    /\ index[1].backed_up_at = call.result.last_backup
    /\ index[2].backed_up_at = call.result.first_backup

LowerHex == {"0", "1", "2", "3", "4", "5", "6", "7", "8", "9", "a", "b", "c", "d", "e", "f"}

\* C15: the digest compute_hash returns for a file, read in chunks of any
\* size, is the digest compute_hash_from_bytes returns for the bytes of the
\* file as one buffer, and it is written in lowercase hexadecimal digits.
C15_ChunkedEqualsWhole ==
    call.op = "compute_hash" =>
        /\ call.result = compute_hash_from_bytes(fs[call.path])
        /\ call.result # << >>
        /\ \A i \in 1..Len(call.result) : call.result[i] \in LowerHex

\* A file of three different bytes hashed in chunks of two: a full chunk,
\* then a short one; the digest has a letter in it.
C15_Witness ==
    /\ call.op = "compute_hash"
    /\ call.chunk_size = 2
    /\ Len(fs[call.path]) = 3
    /\ Cardinality(Range(fs[call.path])) = 3
    /\ \E i \in 1..Len(call.result) : call.result[i] \in {"a", "b", "c", "d", "e", "f"}

\* C16: an upload that has returned "success" with the path P for the digest
\* D is the one whose insert created the row, and the index holds a row of
\* D whose storage_path is P.
C16_Original ==
    \A u \in Uploads :
        status[u] = "success" =>
            /\ created[u] = "true"
            /\ \E i \in 1..Len(index) :
                  /\ index[i].sha256_hash = file_hash(u)
                  /\ index[i].storage_path = relative_path[u]

\* C17: the file at the storage_path of every row of the index, while it is
\* there, holds the whole content of an upload that was given this path: it
\* is never empty, cut short or half written.
C17_Original ==
    \A i \in 1..Len(index) :
        index[i].storage_path \in Files =>
            \E u \in Uploads :
                /\ relative_path[u] = index[i].storage_path
                /\ fs[index[i].storage_path] = content(u)

\* C18: the file at the storage_path of every row of the index holds bytes
\* whose digest is the row's sha256_hash and whose number is the row's
\* file_size.
C18_Original ==
    \A i \in 1..Len(index) :
        index[i].storage_path \in Files =>
            /\ compute_hash_from_bytes(fs[index[i].storage_path]) = index[i].sha256_hash
            /\ Len(fs[index[i].storage_path]) = index[i].file_size

Holders(path) == {u \in Uploads : relative_path[u] = path}

C18_State ==
    \A i \in 1..Len(index) :
        (index[i].storage_path \in Files /\ Cardinality(Holders(index[i].storage_path)) = 1) =>
            /\ compute_hash_from_bytes(fs[index[i].storage_path]) = index[i].sha256_hash
            /\ Len(fs[index[i].storage_path]) = index[i].file_size

C18_Step ==
    \A i \in 1..Len(index) :
        LET path == index[i].storage_path
        IN  path \in Files =>
              /\ \A v \in Uploads :
                    (pc[v] = "idle" /\ pc'[v] # "idle") => relative_path'[v] # path
              /\ (path \notin DOMAIN fs' \/ fs'[path] # fs[path]) =>
                    \E u \in Holders(path) :
                        /\ pc[u] \in {"open", "write"}
                        /\ pc'[u] # pc[u] \/ off'[u] # off[u]

\* C18 as amended: the file at the storage_path of a row, when no other
\* upload was given the same path, holds bytes whose digest is the row's
\* sha256_hash and whose number is the row's file_size; an upload that starts
\* while the file of a row is there is given another path, and only the open
\* or the write of an upload that was given the path of a row changes the
\* bytes at it.
C18_RecordedBytesKept == [][C18_Step /\ C18_State']_vars

\* Two uploads of one file name and different contents are both recorded,
\* the later one under the next free name, and each file holds its content.
C18_Witness ==
    \E u, v \in Uploads :
        /\ status[u] = "success" /\ status[v] = "success"
        /\ created[u] = "true" /\ created[v] = "true"
        /\ Requests[req[u]].filename = Requests[req[v]].filename
        /\ content(u) # content(v)
        /\ relative_path[u] # relative_path[v]
        /\ fs[relative_path[u]] = content(u) /\ fs[relative_path[v]] = content(v)
        /\ Len(index) = 2

\* A step of delete_file: no upload moves.
DeleteStep == pc' = pc /\ off' = off /\ call'.op = "delete"

C19_Step ==
    /\ DeleteStep =>
          /\ call'.result = (call'.path \in Files)
          /\ call'.path \notin DOMAIN fs'
          /\ DOMAIN fs' = Files \ {call'.path}
          /\ \A q \in DOMAIN fs' : fs'[q] = fs[q]
          /\ index' = index
          /\ \A i \in 1..Len(index) : exists(index', index[i].sha256_hash)
    /\ \A u \in Uploads :
          (/\ pc[u] = "idle" /\ pc'[u] # "idle"
           /\ \E i \in 1..Len(index) :
                 /\ index[i].sha256_hash = Requests[req'[u]].file_hash
                 /\ index[i].storage_path \notin Files)
          => /\ pc'[u] = "done" /\ status'[u] = "exists"
             /\ fs' = fs
             /\ index' = index

\* C19: delete_file answers true exactly when the file was there, leaves it
\* absent and every other file and the index as they were, the digest of a
\* row whose file it removed still exists in the index, and an upload of
\* that digest ends "exists" without a file being created again.
C19_DeleteKeepsIndex == [][C19_Step]_vars

\* The file of a row was deleted, and an upload of the row's digest made
\* afterwards ended "exists"; the file is still gone.
C19_Witness ==
    /\ call.op = "delete" /\ call.result = TRUE
    /\ call.path \notin Files
    /\ \E i \in 1..Len(index) : \E u, v \in Uploads :
          /\ index[i].storage_path = call.path
          /\ status[u] = "success" /\ relative_path[u] = call.path
          /\ index[i].sha256_hash = file_hash(u)
          /\ status[v] = "exists" /\ file_hash(v) = file_hash(u)
          /\ ~Mismatch(req[v])

Begins(text, word) ==
    \E rest \in 0..Len(text) :
        /\ Len(text) = Len(word) + rest
        /\ \A i \in 1..Len(word) : text[i] = word[i]

\* C20: the folder chosen for a source and a MIME type is WhatsApp, WeChat
\* or Downloads when the source is whatsapp, wechat or downloads, whatever
\* the MIME type; for every other source, camera and none included, it is
\* Photos when the MIME type begins with image/, Videos when it begins with
\* video/, and Other otherwise.
C20_FolderFirstMatch ==
    call.op = "folder" =>
        /\ call.source = "whatsapp" => call.result = "WhatsApp"
        /\ call.source = "wechat" => call.result = "WeChat"
        /\ call.source = "downloads" => call.result = "Downloads"
        /\ call.source \notin {"whatsapp", "wechat", "downloads"} =>
              /\ Begins(call.mime_type, <<"i", "m", "a", "g", "e", "/">>) =>
                    call.result = "Photos"
              /\ Begins(call.mime_type, <<"v", "i", "d", "e", "o", "/">>) =>
                    call.result = "Videos"
              /\ (/\ ~Begins(call.mime_type, <<"i", "m", "a", "g", "e", "/">>)
                  /\ ~Begins(call.mime_type, <<"v", "i", "d", "e", "o", "/">>)) =>
                    call.result = "Other"

\* A video sent with the source whatsapp goes to WhatsApp.
C20_Witness ==
    /\ call.op = "folder"
    /\ call.source = "whatsapp"
    /\ Begins(call.mime_type, <<"v", "i", "d", "e", "o", "/">>)
    /\ call.result = "WhatsApp"

Removed(name) == SelectSeq(name, IsSafeChar)

Trimmed(name) ==
    LET inner == {i \in 1..Len(name) : name[i] \notin {".", " "}}
    IN  IF inner = {} THEN << >>
        ELSE SubSeq(name, CHOOSE i \in inner : \A j \in inner : i <= j,
                          CHOOSE i \in inner : \A j \in inner : i >= j)

\* C21: the sanitized name of a file name is the file name with every
\* character outside the safe set removed and the dots and spaces at its
\* two ends trimmed, or "unnamed" when nothing is left.
C21_Original ==
    call.op = "sanitize" =>
        call.result = (IF Trimmed(Removed(call.filename)) = << >> THEN Unnamed
                       ELSE Trimmed(Removed(call.filename)))

\* C22: the path given to an upload has the four components folder, year,
\* month and name; the folder is one of the six media folders and the name
\* is not empty, holds no "/", does not begin with a dot and is neither "."
\* nor "..".
C22_PathInsideRoot ==
    \A u \in Uploads :
        relative_path[u] # NoPath =>
            LET path == relative_path[u]
                name == path[4]
            IN  /\ Len(Parts(path)) = 4
                /\ Parts(path)[4] = name
                /\ path[1] \in {"Photos", "Videos", "Other", "WhatsApp", "WeChat", "Downloads"}
                /\ name # << >>
                /\ \A i \in 1..Len(name) : name[i] # "/"
                /\ name[1] # "."
                /\ name \notin {<<".">>, <<".", ".">>}

\* An upload whose file name begins with a dot and holds a "/" was given a
\* path.
C22_Witness ==
    \E u \in Uploads :
        /\ relative_path[u] # NoPath
        /\ Len(Requests[req[u]].filename) = 3
        /\ Requests[req[u]].filename[1] = "."
        /\ Requests[req[u]].filename[2] = "/"

\* C23: the year and the month of the path given to an upload are those of
\* its date_taken whenever the request carries one, the epoch (0) included,
\* and those of the time of the allocation only when it carries none; the
\* month is written with two digits.
C23_Original ==
    \A u \in Uploads :
        relative_path[u] # NoPath =>
            LET path == relative_path[u]
                date_taken == Requests[req[u]].date_taken
                dt == FromTimestamp(IF date_taken # NoDate THEN date_taken ELSE NowDays)
            IN  /\ path[2] = dt.year
                /\ path[3] = dt.month
                /\ Len(Month02(path[3])) = 2
                /\ date_taken = 0 => path[2] = 1970 /\ path[3] = 1

\* C24: with no I/O failure and a fair scheduler every upload that has
\* started, alone or among others, ends, and ends "exists", "hash_mismatch"
\* or "success"; the path allocation on the way returns.
C24_EveryUploadEnds ==
    \A u \in Uploads :
        (pc[u] # "idle") ~>
            (pc[u] = "done" /\ status[u] \in {"exists", "hash_mismatch", "success"})

\* All uploads have ended, one of them under a numbered name found by the
\* collision loop after it had waited for the database.
C24_Witness ==
    /\ \A u \in Uploads : pc[u] = "done"
    /\ \E u, v \in Uploads :
          /\ status[u] = "success" /\ status[v] = "success"
          /\ Requests[req[u]].filename = NameA /\ Requests[req[v]].filename = NameA
          /\ relative_path[u][4] = NameA /\ relative_path[v][4] = NameA1
          /\ content(u) # content(v)
    /\ Len(index) = 2

====
